---- MODULE Spec2Model ----
(***************************************************************************)
(* The Hash tool of docs/snippets/go-hash-tool-readme.md.mdx: the Go       *)
(* program (main.go, commands/hash.go) and the TypeScript program          *)
(* (src/tools.ts, src/hash.ts).  One invocation is one process: it reads   *)
(* its argument list and the environment variables DATA and ALGO, writes   *)
(* lines to stdout and stderr, and exits with a status.                    *)
(***************************************************************************)
EXTENDS Integers, Sequences, FiniteSets, TLC

VARIABLES
    tool,                  \* the program being run: "go" or "ts"
    args,                  \* the command-line arguments after the program name
    env,                   \* the environment: a function from the set names to strings
    mapOrder,              \* Go: the order in which `range hashFunctions` yields the keys
    pc,                    \* position of the running process
    res,                   \* Go main: var res string
    err,                   \* Go main: var err error
    error,                 \* TypeScript: the exception caught by catch (error)
    stdout,                \* lines written to standard output
    stderr,                \* lines written to standard error
    exitCode,              \* exit status once pc = "exited"
    hashFunctions,         \* Go: var hashFunctions (package-level map)
    SUPPORTED_ALGORITHMS,  \* TypeScript: const SUPPORTED_ALGORITHMS (module-level array)
    seen,                  \* an earlier, finished invocation (inputs and outcome)
    getThreadsData,        \* Threads page: getThreads.data, the SWR cache of the threads
    searchParams,          \* Threads page: the search parameters of the URL
    loaderData,            \* Threads page: useLoaderData(), what clientLoader returned
    clicked,               \* Threads page: the key of the filter badge clicked last, or ""
    helper,                \* AIHelper: the receiver a, built by New
    output,                \* GenerateObject: the parameter output, an interface value
    outputValue,           \* GenerateObject: the variable output points to
    given,                 \* GenerateObject: that variable as it was when the call began
    instructions,          \* GenerateObject: the parameter instructions
    input,                 \* GenerateObject: the parameter input
    isString,              \* GenerateObject: isString of output.(*string)
    options,               \* GenerateObject: the gptscript.Options passed to Evaluate
    toolDef,               \* GenerateObject: the gptscript.ToolDef passed to Evaluate
    run,                   \* GenerateObject: run, or NoRun
    text,                  \* GenerateObject: text, or NoText
    callErr,               \* GenerateObject: err
    returned,              \* GenerateObject: the error returned to the caller
    helperPc,              \* GenerateObject: position of the call
    agent,                 \* AgentPublishStatus: the prop agent, or NoAgent
    assistantsCache,       \* AgentPublishStatus: the SWR cache entry of getAssistants
    fetching,              \* AgentPublishStatus: a request of getAssistants is in flight
    fetchedFor,            \* AgentPublishStatus: the agent for which the last request began
    onChangeArg,           \* AgentPublishStatus: the argument of the last call of onChange
    shown                  \* AgentPublishStatus: the elements rendered

\* The variables of the hash tools.
toolVars == <<tool, args, env, mapOrder, pc, res, err, error, stdout, stderr, exitCode,
              hashFunctions, SUPPORTED_ALGORITHMS, seen>>

\* The variables of the Threads page.
pageVars == <<getThreadsData, searchParams, loaderData, clicked>>

\* The variables of a call of AIHelper.GenerateObject.
helperVars == <<helper, output, outputValue, given, instructions, input, isString, options,
                toolDef, run, text, callErr, returned, helperPc>>

\* The variables of the AgentPublishStatus component.
statusVars == <<agent, assistantsCache, fetching, fetchedFor, onChangeArg, shown>>

vars == <<toolVars, pageVars, helperVars, statusVars>>

\* What a step of a hash tool leaves alone, and what a step of the page does.
notToolVars == <<pageVars, helperVars, statusVars>>

notPageVars == <<toolVars, helperVars, statusVars>>

notHelperVars == <<toolVars, pageVars, statusVars>>

notStatusVars == <<toolVars, pageVars, helperVars>>

(***************************************************************************)
(* Bounds and input sets.                                                  *)
(***************************************************************************)
\* The largest number of command-line arguments an invocation is given.
MaxArgs == 2

Commands == {"hash", "verify"}

RECURSIVE ExtraArgs(_)
ExtraArgs(n) == IF n = 0 THEN <<>> ELSE <<"extra">> \o ExtraArgs(n - 1)

\* No argument at all, or a command followed by up to MaxArgs - 1 further arguments.
ArgLists == {<<>>} \cup {<<c>> \o ExtraArgs(n) : c \in Commands, n \in 0..(MaxArgs - 1)}

DataValues == {"", "foo", "bar"}
AlgoValues == {"", "sha256", "md5", "whirlpool"}

\* Every environment over DATA and ALGO: each is unset, or set to one of the values.
Environments ==
    {[DATA |-> d, ALGO |-> a] : d \in DataValues, a \in AlgoValues}
    \cup {[DATA |-> d] : d \in DataValues}
    \cup {[ALGO |-> a] : a \in AlgoValues}
    \cup {[n \in {} |-> ""]}

(***************************************************************************)
(* Strings.                                                                *)
(***************************************************************************)
\* The characters of the strings that are ordered or encoded, in byte order.
Alphabet == "0123456789abcdefghijklmnopqrstuvwxyz"

CharCode(c) == CHOOSE i \in 1..Len(Alphabet) : SubSeq(Alphabet, i, i) = c

\* Byte-wise lexicographic order of strings, as Go's < on strings.
RECURSIVE StrLess(_, _)
StrLess(a, b) ==
    IF Len(b) = 0 THEN FALSE
    ELSE IF Len(a) = 0 THEN TRUE
    ELSE LET ca == CharCode(SubSeq(a, 1, 1))
             cb == CharCode(SubSeq(b, 1, 1))
         IN  IF ca # cb THEN ca < cb
             ELSE StrLess(SubSeq(a, 2, Len(a)), SubSeq(b, 2, Len(b)))

\* Insert s in the ascending sequence sorted.
RECURSIVE Insert(_, _)
Insert(s, sorted) ==
    IF sorted = <<>> THEN <<s>>
    ELSE IF StrLess(s, Head(sorted)) THEN <<s>> \o sorted
    ELSE <<Head(sorted)>> \o Insert(s, Tail(sorted))

\* sort.Strings(set): the sequence in increasing order.
RECURSIVE SortStrings(_)
SortStrings(set) ==
    IF set = <<>> THEN <<>> ELSE Insert(Head(set), SortStrings(Tail(set)))

\* strings.Join(elems, sep) and Array.prototype.join(sep).
RECURSIVE Join(_, _)
Join(elems, sep) ==
    IF elems = <<>> THEN ""
    ELSE IF Len(elems) = 1 THEN elems[1]
    ELSE elems[1] \o sep \o Join(Tail(elems), sep)

\* Array.prototype.includes(x).
Includes(array, x) == \E i \in 1..Len(array) : array[i] = x

(***************************************************************************)
(* Digests.  The library functions are reference functions of the data:    *)
(* their values on the data of the model are tabulated as raw bytes.       *)
(***************************************************************************)
Sha256Sum(d) ==
    CASE d = "foo" -> <<44, 38, 180, 107, 104, 255, 198, 143, 249, 155, 69, 60, 29, 48, 65, 52,
                        19, 66, 45, 112, 100, 131, 191, 160, 249, 138, 94, 136, 98, 102, 231, 174>>
      [] d = "bar" -> <<252, 222, 43, 46, 219, 165, 107, 244, 8, 96, 31, 183, 33, 254, 155, 92,
                        51, 141, 16, 238, 66, 158, 160, 79, 174, 85, 17, 182, 143, 191, 143, 185>>

Md5Sum(d) ==
    CASE d = "foo" -> <<172, 189, 24, 219, 76, 194, 248, 92, 237, 239, 101, 79, 204, 196, 164, 216>>
      [] d = "bar" -> <<55, 181, 29, 25, 74, 117, 19, 228, 91, 86, 246, 82, 79, 45, 81, 242>>

\* hex.EncodeToString and digest('hex'): two lowercase hexadecimal digits per byte.
HexDigit(n) == SubSeq("0123456789abcdef", n + 1, n + 1)

\* Encoding without the leading zero of a byte below 16.
RECURSIVE EncodeToStringUnpadded(_)
EncodeToStringUnpadded(bytes) ==
    IF bytes = <<>> THEN ""
    ELSE (IF Head(bytes) < 16 THEN "" ELSE HexDigit(Head(bytes) \div 16))
         \o HexDigit(Head(bytes) % 16) \o EncodeToStringUnpadded(Tail(bytes))

RECURSIVE EncodeToString(_)
EncodeToString(bytes) ==
    IF bytes = <<>> THEN ""
    ELSE HexDigit(Head(bytes) \div 16) \o HexDigit(Head(bytes) % 16)
         \o EncodeToString(Tail(bytes))

(***************************************************************************)
(* Go: commands/hash.go                                                    *)
(***************************************************************************)
\* The error value nil; a non-nil error is <<message>>.
nil == <<>>

Errorf(message) == <<message>>

\* var hashFunctions = hashFuncSet{...}: algorithm name -> digest function.
hashFuncSet == [sha256 |-> "sha256.Sum256", md5 |-> "md5.Sum"]

\* Calling a value of the map on the bytes of d.
Sum(fn, d) ==
    CASE fn = "sha256.Sum256" -> Sha256Sum(d)
      [] fn = "md5.Sum" -> Md5Sum(d)

\* The orders in which a range over the map m may yield its keys: Go leaves the
\* iteration order of a map unspecified.
MapOrders(m) ==
    {o \in [1..Cardinality(DOMAIN m) -> DOMAIN m] :
        \A i, j \in 1..Cardinality(DOMAIN m) : i # j => o[i] # o[j]}

\* keys without the sort: the keys in iteration order.
keysUnsorted(m, order) == [i \in 1..Cardinality(DOMAIN m) |-> order[i]]

\* func keys(m): the keys appended in iteration order, then sort.Strings.
keys(m, order) ==
    LET set == [i \in 1..Cardinality(DOMAIN m) |-> order[i]]
    IN  SortStrings(set)

\* func (s hashFuncSet) String().
String(s, order) == Join(keys(s, order), ", ")

\* Marshal with a space after each separator and inside the braces.
MarshalSpaced(v) ==
    [bytes |-> "{ \"algo\": \"" \o v.Algo \o "\", \"hash\": \"" \o v.Hash \o "\" }",
     err |-> nil]

\* json.Marshal(hashResult{Algo, Hash}): the fields in declaration order under their
\* json tags, no white space.  Both strings consist of characters of Alphabet,
\* which the encoder copies unescaped.  The error is always nil for this type.
Marshal(v) ==
    [bytes |-> "{\"algo\":\"" \o v.Algo \o "\",\"hash\":\"" \o v.Hash \o "\"}",
     err |-> nil]

\* Hash with the two validations in the other order: the algorithm first.
HashAlgoFirst(data, algo) ==
    LET algo1 == IF algo = "" THEN "sha256" ELSE algo
    IN  IF algo1 \notin DOMAIN hashFunctions
        THEN [res |-> "",
              err |-> Errorf("Unsupported hash algorithm: " \o algo1 \o " not in ["
                             \o String(hashFunctions, mapOrder) \o "]")]
        ELSE IF data = ""
        THEN [res |-> "", err |-> Errorf("A non-empty data argument must be provided")]
        ELSE [res |-> Marshal([Algo |-> algo1,
                               Hash |-> EncodeToString(Sum(hashFunctions[algo1], data))]).bytes,
              err |-> nil]

\* Hash with md5 as the algorithm of an empty algo.
HashDefaultMd5(data, algo) ==
    IF data = ""
    THEN [res |-> "", err |-> Errorf("A non-empty data argument must be provided")]
    ELSE LET algo1 == IF algo = "" THEN "md5" ELSE algo
         IN  IF algo1 \notin DOMAIN hashFunctions
             THEN [res |-> "",
                   err |-> Errorf("Unsupported hash algorithm: " \o algo1 \o " not in ["
                                  \o String(hashFunctions, mapOrder) \o "]")]
             ELSE [res |-> Marshal([Algo |-> algo1,
                                    Hash |-> EncodeToString(Sum(hashFunctions[algo1], data))]).bytes,
                   err |-> nil]

\* Hash that selects the digest function by the defaulted name and reports the
\* name as it was given.
HashEchoesGivenAlgo(data, algo) ==
    IF data = ""
    THEN [res |-> "", err |-> Errorf("A non-empty data argument must be provided")]
    ELSE LET algo1 == IF algo = "" THEN "sha256" ELSE algo
         IN  IF algo1 \notin DOMAIN hashFunctions
             THEN [res |-> "",
                   err |-> Errorf("Unsupported hash algorithm: " \o algo1 \o " not in ["
                                  \o String(hashFunctions, mapOrder) \o "]")]
             ELSE [res |-> Marshal([Algo |-> algo,
                                    Hash |-> EncodeToString(Sum(hashFunctions[algo1], data))]).bytes,
                   err |-> nil]

\* func Hash(data, algo string) (string, error).
Hash(data, algo) ==
    IF data = ""
    THEN [res |-> "", err |-> Errorf("A non-empty data argument must be provided")]
    ELSE LET algo1 == IF algo = "" THEN "sha256" ELSE algo
             ok == algo1 \in DOMAIN hashFunctions
         IN  IF ~ok
             THEN [res |-> "",
                   err |-> Errorf("Unsupported hash algorithm: " \o algo1 \o " not in ["
                                  \o String(hashFunctions, mapOrder) \o "]")]
             ELSE LET sum == hashFunctions[algo1]
                      m == Marshal([Algo |-> algo1,
                                    Hash |-> EncodeToString(Sum(sum, data))])
                  IN  IF m.err # nil
                      THEN [res |-> "",
                            err |-> Errorf("Failed to marshal hash result: " \o m.err[1])]
                      ELSE [res |-> m.bytes, err |-> nil]

(***************************************************************************)
(* TypeScript: src/hash.ts                                                 *)
(***************************************************************************)
\* JavaScript values: undefined, or a string.
undefined == [type |-> "undefined"]

JsString(s) == [type |-> "string", val |-> s]

\* A parameter with a default value: the default applies to undefined only.
Default(v, d) == IF v = undefined THEN d ELSE v.val

\* createHash(algo).update(data).digest('hex').
DigestHex(algo, data) ==
    CASE algo = "sha256" -> EncodeToString(Sha256Sum(data))
      [] algo = "md5" -> EncodeToString(Md5Sum(data))

\* JSON.stringify({algo, hash}): the properties in insertion order, no white space.
stringify(v) == "{\"algo\":\"" \o v.algo \o "\",\"hash\":\"" \o v.hash \o "\"}"

\* export function hash(data: string = '', algo = 'sha256'): string.
\* The result is [throws |-> TRUE, error |-> e] or [throws |-> FALSE, value |-> s].
hash(dataArg, algoArg) ==
    LET data == Default(dataArg, "")
        algo == Default(algoArg, "sha256")
    IN  IF data = ""
        THEN [throws |-> TRUE,
              error |-> [message |-> "A non-empty data argument must be provided"]]
        ELSE IF ~Includes(SUPPORTED_ALGORITHMS, algo)
        THEN [throws |-> TRUE,
              error |-> [message |-> "Unsupported hash algorithm " \o algo \o " not in ["
                                     \o Join(SUPPORTED_ALGORITHMS, ", ") \o "]"]]
        ELSE [throws |-> FALSE,
              value |-> stringify([algo |-> algo, hash |-> DigestHex(algo, data)])]

\* `${error}` for an Error: Error.prototype.toString().
ErrorToString(e) == IF e.message = "" THEN "Error" ELSE "Error: " \o e.message

(***************************************************************************)
(* The processes.                                                          *)
(***************************************************************************)
Tools == {"go", "ts"}

\* No invocation remembered.
None == [tool |-> "none"]

\* os.Args and process.argv: the program's own name(s), then the arguments.
osArgs == <<"gptscript-go-tool">> \o args

processArgv == <<"node", "src/tools.ts">> \o args

\* os.Getenv(key): the value, or "" when the variable is not set.
Getenv(key) == IF key \in DOMAIN env THEN env[key] ELSE ""

\* process.env[key]: the value, or undefined when the variable is not set.
processEnv(key) == IF key \in DOMAIN env THEN JsString(env[key]) ELSE undefined

\* fmt.Println(line), console.log(line): one line on standard output.
Println(line) == stdout' = Append(stdout, line)

\* os.Exit(code), process.exit(code), or the end of the program (code 0).
Exit(code) == pc' = "exited" /\ exitCode' = code

\* No process yet.
ToolInit ==
    /\ tool = "go"
    /\ args = <<>>
    /\ env = [n \in {} |-> ""]
    /\ mapOrder = <<>>
    /\ pc = "idle"
    /\ res = ""
    /\ err = nil
    /\ error = undefined
    /\ stdout = <<>>
    /\ stderr = <<>>
    /\ exitCode = 0
    /\ hashFunctions = hashFuncSet
    /\ SUPPORTED_ALGORITHMS = <<"sha256", "md5">>
    /\ seen = None

\* The Threads page is not open: nothing fetched, no search parameters.
PageClosed ==
    /\ getThreadsData = undefined
    /\ searchParams = <<>>
    /\ loaderData = [n \in {} |-> ""]
    /\ clicked = ""

\* Go values of package aihelper: no helper built, the nil interface value, no
\* variable behind a nil pointer, and the nil *gptscript.Run.
NoHelper == [modelName |-> ""]

NilInterface == [type |-> "nil", ptr |-> "nil"]

NoVariable == [none |-> TRUE]

NilRun == [id |-> 0]

\* No call of GenerateObject is in progress.
HelperIdle ==
    /\ output = NilInterface
    /\ outputValue = NoVariable
    /\ given = NoVariable
    /\ instructions = ""
    /\ input = ""
    /\ isString = FALSE
    /\ options = [Input |-> ""]
    /\ toolDef = [ModelName |-> "", JSONResponse |-> FALSE, Instructions |-> "",
                  Temperature |-> "0"]
    /\ run = NilRun
    /\ text = ""
    /\ callErr = nil
    /\ returned = nil
    /\ helperPc = "idle"

\* No AIHelper has been built.
HelperAbsent == helper = NoHelper /\ HelperIdle

\* No agent passed to a component, and no call of onChange.
NoAgent == [none |-> TRUE]

NoCall == [none |-> TRUE]

\* AgentPublishStatus is not mounted.
StatusUnmounted ==
    /\ agent = NoAgent
    /\ assistantsCache = undefined
    /\ fetching = FALSE
    /\ fetchedFor = NoAgent
    /\ onChangeArg = NoCall
    /\ shown = {}

Init == ToolInit /\ PageClosed /\ HelperAbsent /\ StatusUnmounted

\* The orchestrator starts a process: a tool, its arguments and its environment.
\* Package-level and module-level values are initialised afresh.
Exec(t, a, e) ==
    /\ pc = "idle"
    /\ tool' = t
    /\ args' = a
    /\ env' = e
    /\ hashFunctions' = hashFuncSet
    /\ SUPPORTED_ALGORITHMS' = <<"sha256", "md5">>
    /\ mapOrder' \in (IF t = "go" THEN MapOrders(hashFuncSet) ELSE {<<>>})
    /\ pc' = t \o "_main"
    /\ res' = ""
    /\ err' = nil
    /\ error' = undefined
    /\ stdout' = <<>>
    /\ stderr' = <<>>
    /\ exitCode' = 0
    /\ UNCHANGED seen
    /\ UNCHANGED notToolVars

\* GoCheckArgs that only refuses a missing command: len(os.Args) < 2.
GoCheckArgsAtLeast ==
    /\ pc = "go_main"
    /\ IF Len(osArgs) < 2
       THEN Println("Usage: gptscript-go-tool <command>") /\ Exit(1)
       ELSE pc' = "go_switch" /\ UNCHANGED <<stdout, exitCode>>
    /\ UNCHANGED <<tool, args, env, mapOrder, res, err, error, stderr,
                   hashFunctions, SUPPORTED_ALGORITHMS, seen>>
    /\ UNCHANGED notToolVars

\* main.go: if len(os.Args) != 2 { ... }
GoCheckArgs ==
    /\ pc = "go_main"
    /\ IF Len(osArgs) # 2
       THEN Println("Usage: gptscript-go-tool <command>") /\ Exit(1)
       ELSE pc' = "go_switch" /\ UNCHANGED <<stdout, exitCode>>
    /\ UNCHANGED <<tool, args, env, mapOrder, res, err, error, stderr,
                   hashFunctions, SUPPORTED_ALGORITHMS, seen>>
    /\ UNCHANGED notToolVars

\* GoSwitch whose default case is the hash case: every command hashes.
GoSwitchAlwaysHash ==
    /\ pc = "go_switch"
    /\ LET r == Hash(Getenv("DATA"), Getenv("ALGO"))
       IN  res' = r.res /\ err' = r.err
    /\ pc' = "go_report"
    /\ UNCHANGED <<tool, args, env, mapOrder, error, stdout, stderr, exitCode,
                   hashFunctions, SUPPORTED_ALGORITHMS, seen>>
    /\ UNCHANGED notToolVars

\* GoSwitch that enters a requested algorithm missing from the table into it,
\* with the sha256 function, after the call.
GoSwitchAddsEntry ==
    /\ pc = "go_switch"
    /\ LET cmd == osArgs[2]
       IN  IF cmd = "hash"
           THEN LET r == Hash(Getenv("DATA"), Getenv("ALGO"))
                    algo == Getenv("ALGO")
                IN  /\ res' = r.res /\ err' = r.err
                    /\ hashFunctions' =
                          IF algo = "" \/ algo \in DOMAIN hashFunctions
                          THEN hashFunctions
                          ELSE [k \in DOMAIN hashFunctions \cup {algo} |->
                                   IF k = algo THEN "sha256.Sum256" ELSE hashFunctions[k]]
           ELSE /\ err' = Errorf("Unsupported command: " \o cmd)
                /\ UNCHANGED <<res, hashFunctions>>
    /\ pc' = "go_report"
    /\ UNCHANGED <<tool, args, env, mapOrder, error, stdout, stderr, exitCode,
                   SUPPORTED_ALGORITHMS, seen>>
    /\ UNCHANGED notToolVars

\* main.go: switch cmd := os.Args[1]; cmd { ... }
GoSwitch ==
    /\ pc = "go_switch"
    /\ LET cmd == osArgs[2]
       IN  IF cmd = "hash"
           THEN LET r == Hash(Getenv("DATA"), Getenv("ALGO"))
                IN  res' = r.res /\ err' = r.err
           ELSE err' = Errorf("Unsupported command: " \o cmd) /\ UNCHANGED res
    /\ pc' = "go_report"
    /\ UNCHANGED <<tool, args, env, mapOrder, error, stdout, stderr, exitCode,
                   hashFunctions, SUPPORTED_ALGORITHMS, seen>>
    /\ UNCHANGED notToolVars

\* GoReport that, on an error, goes back to the switch to try the command again.
GoReportRetries ==
    /\ pc = "go_report"
    /\ IF err # nil
       THEN pc' = "go_switch" /\ UNCHANGED <<stdout, exitCode>>
       ELSE /\ IF res # "" THEN Println(res) ELSE UNCHANGED stdout
            /\ Exit(0)
    /\ UNCHANGED <<tool, args, env, mapOrder, res, err, error, stderr,
                   hashFunctions, SUPPORTED_ALGORITHMS, seen>>
    /\ UNCHANGED notToolVars

\* GoReport without the os.Exit(1) of the error branch: main returns, status 0.
GoReportNoExit ==
    /\ pc = "go_report"
    /\ IF err # nil
       THEN Println(err[1])
       ELSE IF res # "" THEN Println(res) ELSE UNCHANGED stdout
    /\ Exit(0)
    /\ UNCHANGED <<tool, args, env, mapOrder, res, err, error, stderr,
                   hashFunctions, SUPPORTED_ALGORITHMS, seen>>
    /\ UNCHANGED notToolVars

\* main.go: if err != nil { ... }; if res != "" { ... }; and main returns.
GoReport ==
    /\ pc = "go_report"
    /\ IF err # nil
       THEN Println(err[1]) /\ Exit(1)
       ELSE /\ IF res # "" THEN Println(res) ELSE UNCHANGED stdout
            /\ Exit(0)
    /\ UNCHANGED <<tool, args, env, mapOrder, res, err, error, stderr,
                   hashFunctions, SUPPORTED_ALGORITHMS, seen>>
    /\ UNCHANGED notToolVars

\* src/tools.ts: if (process.argv.length !== 3) { console.error(...); process.exit(1) }
TsCheckArgs ==
    /\ pc = "ts_main"
    /\ IF Len(processArgv) # 3
       THEN stderr' = Append(stderr, "Usage: node tool.ts <command>") /\ Exit(1)
       ELSE pc' = "ts_switch" /\ UNCHANGED <<stderr, exitCode>>
    /\ UNCHANGED <<tool, args, env, mapOrder, res, err, error, stdout,
                   hashFunctions, SUPPORTED_ALGORITHMS, seen>>
    /\ UNCHANGED notToolVars

\* src/tools.ts: try { switch (cmd) { ... } }: the hash call returns and its value is
\* logged, or it throws and control passes to the catch clause.
TsSwitch ==
    /\ pc = "ts_switch"
    /\ LET cmd == processArgv[3]
       IN  IF cmd = "hash"
           THEN LET r == hash(processEnv("DATA"), processEnv("ALGO"))
                IN  IF r.throws
                    THEN /\ error' = r.error
                         /\ pc' = "ts_catch"
                         /\ UNCHANGED <<stdout, exitCode>>
                    ELSE Println(r.value) /\ Exit(0) /\ UNCHANGED error
           ELSE Println("Unknown command: " \o cmd) /\ Exit(1) /\ UNCHANGED error
    /\ UNCHANGED <<tool, args, env, mapOrder, res, err, stderr,
                   hashFunctions, SUPPORTED_ALGORITHMS, seen>>
    /\ UNCHANGED notToolVars

\* src/tools.ts: catch (error) { console.log(`${error}`); process.exit(1) }
TsCatch ==
    /\ pc = "ts_catch"
    /\ Println(ErrorToString(error))
    /\ Exit(1)
    /\ UNCHANGED <<tool, args, env, mapOrder, res, err, error, stderr,
                   hashFunctions, SUPPORTED_ALGORITHMS, seen>>
    /\ UNCHANGED notToolVars

\* The inputs and the outcome of the finished invocation.
Outcome ==
    [tool |-> tool, args |-> args, env |-> env,
     stdout |-> stdout, stderr |-> stderr, exitCode |-> exitCode]

\* The orchestrator keeps the outcome of a finished invocation.
Remember ==
    /\ pc = "exited"
    /\ seen' = Outcome
    /\ UNCHANGED <<tool, args, env, mapOrder, pc, res, err, error, stdout, stderr,
                   exitCode, hashFunctions, SUPPORTED_ALGORITHMS>>
    /\ UNCHANGED notToolVars

\* The orchestrator has read the output of the exited process and lets go of it.
Wait ==
    /\ pc = "exited"
    /\ tool' = "go"
    /\ args' = <<>>
    /\ env' = [n \in {} |-> ""]
    /\ mapOrder' = <<>>
    /\ pc' = "idle"
    /\ res' = ""
    /\ err' = nil
    /\ error' = undefined
    /\ stdout' = <<>>
    /\ stderr' = <<>>
    /\ exitCode' = 0
    /\ UNCHANGED <<hashFunctions, SUPPORTED_ALGORITHMS, seen>>
    /\ UNCHANGED notToolVars

Step == GoCheckArgs \/ GoSwitch \/ GoReport \/ TsCheckArgs \/ TsSwitch \/ TsCatch

Start == \E t \in Tools, a \in ArgLists, e \in Environments : Exec(t, a, e)

Next == Start \/ Step \/ Wait

Spec == Init /\ [][Next]_vars

\* The same processes, with the orchestrator remembering earlier outcomes.
NextHistory == Start \/ Step \/ Wait \/ Remember

SpecHistory == Init /\ [][NextHistory]_vars

(***************************************************************************)
(* The Threads page (routes/_auth.threads.tsx): its list of threads and    *)
(* its filter badges.                                                      *)
(***************************************************************************)
\* The number of threads the service may know.
MaxThreads == 4

\* The thread with id i; a field that is absent is undefined.  Of every four ids,
\* one is a thread of agent a1, one of workflow w1, one of neither, and one of
\* agent a2 and workflow w1 with no user.
ThreadOf(i) ==
    [id |-> i,
     agentID |-> CASE i % 4 = 1 -> JsString("a1")
                   [] i % 4 = 0 -> JsString("a2")
                   [] OTHER -> undefined,
     workflowID |-> CASE i % 4 = 2 -> JsString("w1")
                      [] i % 4 = 0 -> JsString("w1")
                      [] OTHER -> undefined,
     userID |-> CASE i % 4 = 1 -> JsString("u1")
                  [] i % 4 = 2 -> JsString("u2")
                  [] i % 4 = 3 -> JsString("u1")
                  [] OTHER -> undefined]

\* The threads with the ids of ids, by increasing id.
RECURSIVE ThreadList(_, _)
ThreadList(ids, from) ==
    IF from > MaxThreads THEN <<>>
    ELSE (IF from \in ids THEN <<ThreadOf(from)>> ELSE <<>>) \o ThreadList(ids, from + 1)

\* A JavaScript array.
JsArray(items) == [type |-> "array", items |-> items]

\* What ThreadsService.getThreads may return.
ThreadLists == {JsArray(ThreadList(ids, 1)) : ids \in SUBSET (1..MaxThreads)}

\* The keys of the search parameters, in the order they appear in a URL of the
\* model, and the values each may have.
ParamKeys == <<"agentId", "workflowId", "userId", "tab">>

ParamValues(key) ==
    CASE key = "agentId" -> {"", "a1", "a2"}
      [] key = "workflowId" -> {"", "w1"}
      [] key = "userId" -> {"", "u1"}
      [] key = "tab" -> {"x"}

\* The search parameters drawn: each key at most once, in the order of ParamKeys.
RECURSIVE ParamLists(_)
ParamLists(from) ==
    IF from > Len(ParamKeys) THEN {<<>>}
    ELSE LET rest == ParamLists(from + 1)
         IN  rest \cup {<<[key |-> ParamKeys[from], value |-> v]>> \o r :
                            v \in ParamValues(ParamKeys[from]), r \in rest}

\* The keys of the schema of "/threads".
SchemaKeys == {"agentId", "workflowId", "userId"}

\* RouteService.getQueryParams("/threads", search): the parameters of the schema,
\* each with its value; other parameters are dropped.
getQueryParams(params) ==
    LET present == {params[i].key : i \in 1..Len(params)} \cap SchemaKeys
    IN  [k \in present |->
            params[CHOOSE i \in 1..Len(params) : params[i].key = k].value]

\* A property of an object: its value, or undefined.
Prop(object, key) == IF key \in DOMAIN object THEN JsString(object[key]) ELSE undefined

\* A value in a condition: undefined and the empty string are false.
Truthy(v) == v # undefined /\ v.val # ""

\* threads without the filter by user.
threadsNoUserFilter(data, agentId, workflowId, userId) ==
    IF data = undefined THEN <<>>
    ELSE LET HasOwner(thread) == Truthy(thread.agentID) \/ Truthy(thread.workflowID)
             OfAgent(thread) == thread.agentID = agentId
             OfWorkflow(thread) == thread.workflowID = workflowId
             f0 == SelectSeq(data.items, HasOwner)
             f1 == IF Truthy(agentId) THEN SelectSeq(f0, OfAgent) ELSE f0
             f2 == IF Truthy(workflowId) THEN SelectSeq(f1, OfWorkflow) ELSE f1
         IN  f2

\* const threads = useMemo(...): the rows of the table.
threads(data, agentId, workflowId, userId) ==
    IF data = undefined THEN <<>>
    ELSE LET HasOwner(thread) == Truthy(thread.agentID) \/ Truthy(thread.workflowID)
             OfAgent(thread) == thread.agentID = agentId
             OfWorkflow(thread) == thread.workflowID = workflowId
             OfUser(thread) == thread.userID = userId
             f0 == SelectSeq(data.items, HasOwner)
             f1 == IF Truthy(agentId) THEN SelectSeq(f0, OfAgent) ELSE f0
             f2 == IF Truthy(workflowId) THEN SelectSeq(f1, OfWorkflow) ELSE f1
             f3 == IF Truthy(userId) THEN SelectSeq(f2, OfUser) ELSE f2
         IN  f3

\* The rows the page displays: threads computed from the cache and the loader data.
Displayed ==
    threads(getThreadsData, Prop(loaderData, "agentId"), Prop(loaderData, "workflowId"),
            Prop(loaderData, "userId"))

\* ThreadFilters: the keys of the badges, one for each entry of the query.
BadgeKeys == DOMAIN getQueryParams(searchParams)

\* removeParam that returns fresh, empty search parameters.
removeParamClearsAll(prev, key) == <<>>

\* removeParam(key): a copy of the previous parameters without the entries of key.
removeParam(prev, key) ==
    LET Other(entry) == entry.key # key
    IN  SelectSeq(prev, Other)

\* The page is opened at a URL: clientLoader returns the query parameters, and the
\* threads are in the cache or still being fetched.
PageOpen ==
    /\ searchParams \in ParamLists(1)
    /\ loaderData = getQueryParams(searchParams)
    /\ getThreadsData \in {undefined} \cup ThreadLists
    /\ clicked = ""

\* getThreads resolves: the threads arrive in the cache.
ThreadsLoaded ==
    /\ getThreadsData = undefined
    /\ getThreadsData' \in ThreadLists
    /\ UNCHANGED <<searchParams, loaderData, clicked>>
    /\ UNCHANGED notPageVars

\* A click on the badge of key: onRemove calls removeParam(key); setSearchParams
\* navigates, clientLoader runs on the new URL and its result becomes the loader data.
ClickBadge(key) ==
    /\ key \in BadgeKeys
    /\ searchParams' = removeParam(searchParams, key)
    /\ loaderData' = getQueryParams(searchParams')
    /\ clicked' = key
    /\ UNCHANGED getThreadsData
    /\ UNCHANGED notPageVars

InitThreads == ToolInit /\ PageOpen /\ HelperAbsent /\ StatusUnmounted

NextThreads == ThreadsLoaded \/ \E key \in SchemaKeys : ClickBadge(key)

SpecThreads == InitThreads /\ [][NextThreads]_vars

(***************************************************************************)
(* Go: encoding/json, decoding.  The texts of the model are JSON without   *)
(* white space, nesting or escapes: a string, a number, or an object of    *)
(* such members.                                                           *)
(***************************************************************************)
Char(s, i) == SubSeq(s, i, i)

\* The position of the first c in s, or 0.
IndexOf(s, c) ==
    IF \E i \in 1..Len(s) : Char(s, i) = c
    THEN CHOOSE i \in 1..Len(s) : Char(s, i) = c /\ \A j \in 1..(i - 1) : Char(s, j) # c
    ELSE 0

\* The pieces of s between the occurrences of sep.
RECURSIVE Split(_, _)
Split(s, sep) ==
    LET i == IndexOf(s, sep)
    IN  IF i = 0 THEN <<s>>
        ELSE <<SubSeq(s, 1, i - 1)>> \o Split(SubSeq(s, i + 1, Len(s)), sep)

IsDigit(c) == \E i \in 1..10 : Char("0123456789", i) = c

\* A JSON number of the model: digits, with no leading zero.
IsNumber(s) ==
    /\ Len(s) > 0
    /\ \A i \in 1..Len(s) : IsDigit(Char(s, i))
    /\ Len(s) > 1 => Char(s, 1) # "0"

\* A JSON string of the model: quoted, with no quote and no escape inside.
IsQuoted(s) ==
    /\ Len(s) >= 2
    /\ Char(s, 1) = "\"" /\ Char(s, Len(s)) = "\""
    /\ \A i \in 2..(Len(s) - 1) : Char(s, i) # "\"" /\ Char(s, i) # "\\"

Unquote(s) == SubSeq(s, 2, Len(s) - 1)

RECURSIVE NumberValue(_)
NumberValue(s) ==
    IF Len(s) = 0 THEN 0
    ELSE 10 * NumberValue(SubSeq(s, 1, Len(s) - 1))
         + (IndexOf("0123456789", Char(s, Len(s))) - 1)

IsScalar(s) == IsQuoted(s) \/ IsNumber(s)

\* The members of the text of an object, as texts.
Members(s) ==
    IF Len(s) <= 2 THEN <<>> ELSE Split(SubSeq(s, 2, Len(s) - 1), ",")

IsMember(m) ==
    LET kv == Split(m, ":")
    IN  Len(kv) = 2 /\ IsQuoted(kv[1]) /\ IsScalar(kv[2])

IsObject(s) ==
    /\ Len(s) >= 2
    /\ Char(s, 1) = "{" /\ Char(s, Len(s)) = "}"
    /\ \A i \in 1..Len(Members(s)) : IsMember(Members(s)[i])

\* checkValid(data): data is the text of one JSON value.
checkValid(data) == IsScalar(data) \/ IsObject(data)

\* The errors of Unmarshal, named by their type.
SyntaxError == Errorf("json: SyntaxError")

InvalidUnmarshalError == Errorf("json: InvalidUnmarshalError")

UnmarshalTypeError == Errorf("json: UnmarshalTypeError")

\* Go variables: a string, and a struct
\*     type Object struct { Name string `json:"name"`; Count int `json:"count"` }.
StringVar(s) == [string |-> s]

ObjectVar(n, c) == [name |-> n, count |-> c]

\* Decoding the members in turn into the struct value: a member of a field is
\* stored when its value has the type of the field and skipped otherwise, the
\* earliest such error being kept; other members are ignored.
RECURSIVE DecodeMembers(_, _, _)
DecodeMembers(members, value, e) ==
    IF members = <<>> THEN [err |-> e, value |-> value]
    ELSE LET kv == Split(Head(members), ":")
             key == Unquote(kv[1])
             mismatch == IF e = nil THEN UnmarshalTypeError ELSE e
         IN  CASE key = "name" ->
                    IF IsQuoted(kv[2])
                    THEN DecodeMembers(Tail(members),
                                       [value EXCEPT !.name = Unquote(kv[2])], e)
                    ELSE DecodeMembers(Tail(members), value, mismatch)
               [] key = "count" ->
                    IF IsNumber(kv[2])
                    THEN DecodeMembers(Tail(members),
                                       [value EXCEPT !.count = NumberValue(kv[2])], e)
                    ELSE DecodeMembers(Tail(members), value, mismatch)
               [] OTHER -> DecodeMembers(Tail(members), value, e)

\* json.Unmarshal(data, v), value being the variable v points to: the error
\* returned and the variable afterwards.
Unmarshal(data, v, value) ==
    IF ~checkValid(data) THEN [err |-> SyntaxError, value |-> value]
    ELSE IF v.ptr = "nil" \/ v.type \notin {"*string", "*Object"}
    THEN [err |-> InvalidUnmarshalError, value |-> value]
    ELSE IF v.type = "*string"
    THEN IF IsQuoted(data) THEN [err |-> nil, value |-> StringVar(Unquote(data))]
         ELSE [err |-> UnmarshalTypeError, value |-> value]
    ELSE IF IsObject(data) THEN DecodeMembers(Members(data), value, nil)
         ELSE [err |-> UnmarshalTypeError, value |-> value]

(***************************************************************************)
(* AIHelper (pkg aihelper): GenerateObject asks the scripting runtime for  *)
(* a text and stores it in, or decodes it into, the caller's variable.     *)
(***************************************************************************)
ModelNames == {"gpt-4o", "llama3"}

\* func New(gptscript, modelName) *AIHelper.
New(modelName) == [modelName |-> modelName]

\* The values a caller passes as output, each with the variable it points to: the
\* nil interface, a *string (nil or not), a *Object (nil or not), an Object.
Outputs ==
    {[output |-> NilInterface, value |-> NoVariable],
     [output |-> [type |-> "*string", ptr |-> "nil"], value |-> NoVariable],
     [output |-> [type |-> "*Object", ptr |-> "nil"], value |-> NoVariable],
     [output |-> [type |-> "Object", ptr |-> "value"], value |-> NoVariable]}
    \cup {[output |-> [type |-> "*string", ptr |-> "&s"], value |-> StringVar(s)] :
             s \in {"", "old"}}
    \cup {[output |-> [type |-> "*Object", ptr |-> "&o"], value |-> v] :
             v \in {ObjectVar("", 0), ObjectVar("old", 1)}}

InstructionsValues == {"Name the thread.", "Summarise."}

InputValues == {"", "hello"}

\* The texts a run may produce.
Texts ==
    {"", "hello", "\"hello\"", "12", "{}", "{\"name\":\"b\"}", "{\"name\":\"b\",\"count\":2}",
     "{\"count\":12,\"name\":7}", "{\"name\":\"b\"", "{\"other\":\"x\",\"name\":\"c\"}"}

\* The errors gptscript may return from Evaluate and from Run.Text.
EvaluateErrors == {Errorf("evaluate: context canceled")}

TextErrors == {Errorf("run: exit status 1")}

\* An AIHelper has been built; no call is in progress.
HelperBuilt == helper \in {New(m) : m \in ModelNames} /\ HelperIdle

\* Lines 23-32: GenerateObject is called; the type assertion, and the call of
\* a.gptscript.Evaluate with the options and the tool definition.
GenerateObject(out, ins, inp) ==
    /\ helperPc = "idle"
    /\ helper # NoHelper
    /\ output' = out.output
    /\ outputValue' = out.value
    /\ given' = out.value
    /\ instructions' = ins
    /\ input' = inp
    /\ isString' = (out.output.type = "*string")
    /\ options' = [Input |-> inp]
    /\ toolDef' = [ModelName |-> helper.modelName,
                   JSONResponse |-> ~isString',
                   Instructions |-> ins,
                   Temperature |-> "0.7"]
    /\ run' = NilRun
    /\ text' = ""
    /\ callErr' = nil
    /\ returned' = nil
    /\ helperPc' = "evaluate"
    /\ UNCHANGED helper
    /\ UNCHANGED notHelperVars

\* Lines 25-35: Evaluate returns a run, or an error that is returned at once.
Evaluate ==
    /\ helperPc = "evaluate"
    /\ \/ /\ run' = [id |-> 1]
          /\ callErr' = nil
          /\ helperPc' = "text"
          /\ UNCHANGED returned
       \/ /\ callErr' \in EvaluateErrors
          /\ run' = NilRun
          /\ returned' = callErr'
          /\ helperPc' = "returned"
    /\ UNCHANGED <<helper, output, outputValue, given, instructions, input, isString,
                   options, toolDef, text>>
    /\ UNCHANGED notHelperVars

\* Text that writes what it has to a string variable before it looks at the error.
TextStoresFirst ==
    /\ helperPc = "text"
    /\ \/ /\ text' \in Texts
          /\ callErr' = nil
          /\ helperPc' = "store"
          /\ UNCHANGED <<returned, outputValue>>
       \/ /\ text' \in Texts
          /\ callErr' \in TextErrors
          /\ returned' = callErr'
          /\ helperPc' = "returned"
          /\ outputValue' = IF isString /\ output.ptr # "nil" THEN StringVar(text')
                            ELSE outputValue
    /\ UNCHANGED <<helper, output, given, instructions, input, isString, options,
                   toolDef, run>>
    /\ UNCHANGED notHelperVars

\* Lines 37-40: run.Text() returns the text of the run, or an error (with whatever
\* text there is) that is returned at once.
Text ==
    /\ helperPc = "text"
    /\ \/ /\ text' \in Texts
          /\ callErr' = nil
          /\ helperPc' = "store"
          /\ UNCHANGED returned
       \/ /\ text' \in Texts
          /\ callErr' \in TextErrors
          /\ returned' = callErr'
          /\ helperPc' = "returned"
    /\ UNCHANGED <<helper, output, outputValue, given, instructions, input, isString,
                   options, toolDef, run>>
    /\ UNCHANGED notHelperVars

\* Lines 42-45: *outputStr = text; return nil.  Writing through a nil pointer panics.
StoreString ==
    /\ helperPc = "store"
    /\ isString
    /\ IF output.ptr = "nil"
       THEN /\ helperPc' = "panicked"
            /\ UNCHANGED <<outputValue, returned>>
       ELSE /\ outputValue' = StringVar(text)
            /\ returned' = nil
            /\ helperPc' = "returned"
    /\ UNCHANGED <<helper, output, given, instructions, input, isString, options,
                   toolDef, run, text, callErr>>
    /\ UNCHANGED notHelperVars

\* Line 47: return json.Unmarshal([]byte(text), output).
Decode ==
    /\ helperPc = "store"
    /\ ~isString
    /\ LET u == Unmarshal(text, output, outputValue)
       IN  /\ outputValue' = u.value
           /\ returned' = u.err
    /\ helperPc' = "returned"
    /\ UNCHANGED <<helper, output, given, instructions, input, isString, options,
                   toolDef, run, text, callErr>>
    /\ UNCHANGED notHelperVars

\* The caller goes on after the call.
Return ==
    /\ helperPc = "returned"
    /\ output' = NilInterface
    /\ outputValue' = NoVariable
    /\ given' = NoVariable
    /\ instructions' = ""
    /\ input' = ""
    /\ isString' = FALSE
    /\ options' = [Input |-> ""]
    /\ toolDef' = [ModelName |-> "", JSONResponse |-> FALSE, Instructions |-> "",
                   Temperature |-> "0"]
    /\ run' = NilRun
    /\ text' = ""
    /\ callErr' = nil
    /\ returned' = nil
    /\ helperPc' = "idle"
    /\ UNCHANGED helper
    /\ UNCHANGED notHelperVars

Call == \E out \in Outputs, ins \in InstructionsValues, inp \in InputValues :
            GenerateObject(out, ins, inp)

InitHelper == ToolInit /\ PageClosed /\ HelperBuilt /\ StatusUnmounted

NextHelper == Call \/ Evaluate \/ Text \/ StoreString \/ Decode \/ Return

SpecHelper == InitHelper /\ [][NextHelper]_vars

(***************************************************************************)
(* AgentPublishStatus (components/agent/AgentPublishStatus.tsx): the       *)
(* Publish or Unpublish control of an agent, and the state of its ref name.*)
(***************************************************************************)
\* The number of assistants the service may know.
MaxAssistants == 2

\* The JavaScript value null.
null == [type |-> "null"]

\* The assistant number i: its id is the ref name "r" i; odd ones are agents, even
\* ones workflows.
AssistantOf(i) ==
    [id |-> "r" \o Char("0123456789", i + 1),
     name |-> "Assistant " \o Char("0123456789", i + 1),
     type |-> IF i % 2 = 1 THEN "agent" ELSE "workflow",
     entityID |-> "e" \o Char("0123456789", i + 1)]

RECURSIVE AssistantList(_, _)
AssistantList(ids, from) ==
    IF from > MaxAssistants THEN <<>>
    ELSE (IF from \in ids THEN <<AssistantOf(from)>> ELSE <<>>)
         \o AssistantList(ids, from + 1)

\* What AssistantApiService.getAssistants may return.
AssistantLists == {JsArray(AssistantList(ids, 1)) : ids \in SUBSET (1..MaxAssistants)}

\* The agents passed as the prop: no ref name, an empty one, the ref name of the
\* first assistant, or one no assistant has; assigned or not.
RefNames == {undefined, JsString(""), JsString("r1"), JsString("mine")}

Agents == {[refName |-> r, refNameAssigned |-> b] : r \in RefNames, b \in BOOLEAN}

\* The names typed into the Publish dialog.
PublishNames == {"r1", "mine"}

\* The key function with no condition: the list is always asked for.
getAssistantsKeyAlways(ag) == [type |-> "key", val |-> "AssistantApiService.getAssistants"]

\* The key function of useSWR: the key of getAssistants, or null.
getAssistantsKey(ag) ==
    IF Truthy(ag.refName) /\ ~ag.refNameAssigned
    THEN [type |-> "key", val |-> "AssistantApiService.getAssistants"]
    ELSE null

\* getAssistants.data: the cache entry of the key; undefined for the key null.
getAssistantsData(ag, cache) == IF getAssistantsKey(ag) = null THEN undefined ELSE cache

\* Array.prototype.find(({ id }) => id === refName): the first such item, or undefined.
find(items, refName) ==
    LET hits == {i \in 1..Len(items) : refName # undefined /\ items[i].id = refName.val}
    IN  IF hits = {} THEN undefined
        ELSE items[CHOOSE i \in hits : \A j \in hits : i <= j]

\* const refAgent = useMemo(...).
refAgent(ag, data) == IF data = undefined THEN null ELSE find(data.items, ag.refName)

\* window.location.protocol and window.location.host.
protocol == "https:"

host == "otto8.example"

\* function renderAgentRef(): the element it returns.
renderAgentRef(ag, ref) ==
    IF ~Truthy(ag.refName) THEN [el |-> "div"]
    ELSE IF ref # null /\ ref # undefined
    THEN [el |-> "Unavailable", id |-> ref.id, name |-> ref.name,
          to |-> IF ref.type = "agent" THEN "/agents/" \o ref.entityID
                 ELSE "/workflows/" \o ref.entityID]
    ELSE IF ~ag.refNameAssigned THEN [el |-> "div"]
    ELSE [el |-> "CopyText", text |-> protocol \o "//" \o host \o "/" \o ag.refName.val]

\* The control at the right: Unpublish for an agent with a ref name, else Publish.
Control(ag) ==
    IF Truthy(ag.refName) THEN [el |-> "Unpublish"]
    ELSE [el |-> "Publish", refName |-> ag.refName]

\* export function AgentPublishStatus: the elements of one rendering.
AgentPublishStatus(ag, cache) ==
    {renderAgentRef(ag, refAgent(ag, getAssistantsData(ag, cache))), Control(ag)}

\* The component is mounted with an agent; the cache may hold an earlier list.
StatusMounted ==
    /\ agent \in Agents
    /\ assistantsCache \in {undefined} \cup AssistantLists
    /\ fetching = FALSE
    /\ fetchedFor = NoAgent
    /\ onChangeArg = NoCall
    /\ shown = AgentPublishStatus(agent, assistantsCache)

\* useSWR calls the fetcher for a key that is not null.
Revalidate ==
    /\ agent # NoAgent
    /\ getAssistantsKey(agent) # null
    /\ ~fetching
    /\ fetching' = TRUE
    /\ fetchedFor' = agent
    /\ UNCHANGED <<agent, assistantsCache, onChangeArg, shown>>
    /\ UNCHANGED notStatusVars

\* The request resolves: the list goes to the cache and the component renders again.
FetchResolved(list) ==
    /\ fetching
    /\ assistantsCache' = list
    /\ fetching' = FALSE
    /\ shown' = AgentPublishStatus(agent, assistantsCache')
    /\ UNCHANGED <<agent, fetchedFor, onChangeArg>>
    /\ UNCHANGED notStatusVars

\* The request fails: the cache keeps what it had.
FetchFailed ==
    /\ fetching
    /\ fetching' = FALSE
    /\ UNCHANGED <<agent, assistantsCache, fetchedFor, onChangeArg, shown>>
    /\ UNCHANGED notStatusVars

\* The parent renders the component with another agent.
PropsChanged(ag) ==
    /\ agent # NoAgent
    /\ ag # agent
    /\ agent' = ag
    /\ shown' = AgentPublishStatus(agent', assistantsCache)
    /\ UNCHANGED <<assistantsCache, fetching, fetchedFor, onChangeArg>>
    /\ UNCHANGED notStatusVars

\* onUnpublish: onChange({ refName: "" }).
ClickUnpublish ==
    /\ [el |-> "Unpublish"] \in shown
    /\ onChangeArg' = [refName |-> ""]
    /\ UNCHANGED <<agent, assistantsCache, fetching, fetchedFor, shown>>
    /\ UNCHANGED notStatusVars

\* onPublish(refName): onChange({ refName }).
ClickPublish(name) ==
    /\ [el |-> "Publish", refName |-> agent.refName] \in shown
    /\ onChangeArg' = [refName |-> name]
    /\ UNCHANGED <<agent, assistantsCache, fetching, fetchedFor, shown>>
    /\ UNCHANGED notStatusVars

InitStatus == ToolInit /\ PageClosed /\ HelperAbsent /\ StatusMounted

NextStatus ==
    \/ Revalidate
    \/ \E list \in AssistantLists : FetchResolved(list)
    \/ FetchFailed
    \/ \E ag \in Agents : PropsChanged(ag)
    \/ ClickUnpublish
    \/ \E name \in PublishNames : ClickPublish(name)

SpecStatus == InitStatus /\ [][NextStatus]_vars

(***************************************************************************)
(* Vocabulary of the properties.                                           *)
(***************************************************************************)
Finished == pc = "exited"

\* The invocation names the hash command, with the right number of arguments.
HashInvoked == args = <<"hash">>

DataAbsent == "DATA" \notin DOMAIN env

DataEmptyOrAbsent == DataAbsent \/ env["DATA"] = ""

DataNonEmpty == ~DataEmptyOrAbsent

AlgoUnset == "ALGO" \notin DOMAIN env

AlgoIs(a) == ~AlgoUnset /\ env["ALGO"] = a

Supported == {"sha256", "md5"}

\* ALGO names an algorithm: it is set, not empty, and not a supported name.
AlgoUnsupportedName == ~AlgoUnset /\ env["ALGO"] \notin Supported \cup {""}

HasPrefix(s, p) == Len(s) >= Len(p) /\ SubSeq(s, 1, Len(p)) = p

HasSuffix(s, p) == Len(s) >= Len(p) /\ SubSeq(s, Len(s) - Len(p) + 1, Len(s)) = p

\* An error line as the Go tool prints it, or as the TypeScript tool prints it
\* (the same text after "Error: ").
ErrorLine(line, message) == HasPrefix(line, message) \/ HasPrefix(line, "Error: " \o message)

IsMissingData(line) == ErrorLine(line, "A non-empty data argument must be provided")

IsUnsupportedAlgorithm(line) == ErrorLine(line, "Unsupported hash algorithm")

IsUnknownCommand(line) ==
    HasPrefix(line, "Unsupported command: ") \/ HasPrefix(line, "Unknown command: ")

\* A success line: a JSON object that starts with the algo key.
IsSuccessJson(line) == HasPrefix(line, "{\"algo\":\"")

\* The value of the algo key of a success line: the text up to the closing quote.
AlgoField(line) ==
    LET from == Len("{\"algo\":\"") + 1
        close == CHOOSE i \in from..Len(line) :
                    /\ SubSeq(line, i, i) = "\""
                    /\ \A j \in from..(i - 1) : SubSeq(line, j, j) # "\""
    IN  SubSeq(line, from, close - 1)

\* The well-known digests of the data of the model, in lowercase hexadecimal.
WellKnownDigest(algo, d) ==
    CASE algo = "sha256" /\ d = "foo" ->
             "2c26b46b68ffc68ff99b453c1d30413413422d706483bfa0f98a5e886266e7ae"
      [] algo = "sha256" /\ d = "bar" ->
             "fcde2b2edba56bf408601fb721fe9b5c338d10ee429ea04fae5511b68fbf8fb9"
      [] algo = "md5" /\ d = "foo" -> "acbd18db4cc2f85cedef654fccc4a4d8"
      [] algo = "md5" /\ d = "bar" -> "37b51d194a7513e45b56f6524f2d51f2"

\* The compact JSON object with exactly the keys algo and hash.
CompactJson(algo, digest) ==
    "{" \o "\"algo\"" \o ":" \o "\"" \o algo \o "\"" \o ","
        \o "\"hash\"" \o ":" \o "\"" \o digest \o "\"" \o "}"

\* The remembered invocation had the same tool and arguments as the finished one.
SeenSameProgram == seen # None /\ Finished /\ seen.tool = tool /\ seen.args = args

(***************************************************************************)
(* Properties.                                                             *)
(***************************************************************************)
\* C1: an invocation of the hash command with DATA empty or absent ends with the
\* missing-data error, whatever ALGO is: exactly that line is printed, the status
\* is not zero, and no unsupported-algorithm error is ever printed.
C1_MissingDataTakesPrecedence ==
    (HashInvoked /\ DataEmptyOrAbsent) =>
        /\ \A i \in 1..Len(stdout) : ~IsUnsupportedAlgorithm(stdout[i])
        /\ \A i \in 1..Len(stderr) : ~IsUnsupportedAlgorithm(stderr[i])
        /\ Finished => /\ Len(stdout) = 1
                       /\ IsMissingData(stdout[1])
                       /\ exitCode # 0

\* C1 happens: the hash command has finished with DATA absent and an unsupported ALGO.
C1_Witness ==
    /\ Finished /\ HashInvoked /\ DataAbsent /\ AlgoIs("whirlpool")
    /\ Len(stdout) = 1 /\ IsMissingData(stdout[1])

\* C2: with the same non-empty DATA, the hash command with ALGO unset and the hash
\* command with ALGO = "sha256" end with the same output and the same exit status.
C2_UnsetAlgoIsSha256 ==
    (SeenSameProgram /\ HashInvoked /\ DataNonEmpty) =>
        /\ (AlgoUnset /\ seen.env = [DATA |-> env["DATA"], ALGO |-> "sha256"])
              => /\ seen.stdout = stdout
                 /\ seen.stderr = stderr
                 /\ seen.exitCode = exitCode
        /\ (AlgoIs("sha256") /\ seen.env = [DATA |-> env["DATA"]])
              => /\ seen.stdout = stdout
                 /\ seen.stderr = stderr
                 /\ seen.exitCode = exitCode

\* C2 happens: a hash invocation with ALGO = "sha256" is remembered and the same
\* tool has finished the hash command on the same DATA with ALGO unset.
C2_Witness ==
    /\ SeenSameProgram /\ HashInvoked /\ DataNonEmpty /\ AlgoUnset
    /\ seen.env = [DATA |-> env["DATA"], ALGO |-> "sha256"]
    /\ Len(stdout) = 1 /\ IsSuccessJson(stdout[1])

\* C3 (the claim as stated): with non-empty DATA and ALGO set to the empty string,
\* the hash command of either tool succeeds with the sha256 result.
C3_EmptyAlgoIsSha256 ==
    (Finished /\ HashInvoked /\ DataNonEmpty /\ AlgoIs("")) =>
        /\ exitCode = 0
        /\ stdout = <<CompactJson("sha256", WellKnownDigest("sha256", env["DATA"]))>>
        /\ \A i \in 1..Len(stdout) : ~IsUnsupportedAlgorithm(stdout[i])

\* C4 (the claim as stated): with non-empty DATA and an ALGO that is neither empty
\* nor supported, the hash command fails with the unsupported-algorithm error, whose
\* message lists the valid algorithms sorted, md5 before sha256.
C4_UnsupportedListsSorted ==
    (Finished /\ HashInvoked /\ DataNonEmpty /\ AlgoUnsupportedName) =>
        /\ exitCode # 0
        /\ Len(stdout) = 1
        /\ IsUnsupportedAlgorithm(stdout[1])
        /\ HasSuffix(stdout[1], env["ALGO"] \o " not in [md5, sha256]")

C6_ExactlyOneStdoutLine == Finished => Len(stdout) = 1

\* C7 (the claim as stated): nothing is ever written to standard error, and an
\* invocation that failed has its error on standard output.
C7_ErrorsOnStdoutOnly ==
    /\ stderr = <<>>
    /\ (Finished /\ exitCode # 0) => Len(stdout) >= 1

\* C8: the exit status of a finished invocation is zero exactly when a success JSON
\* line was printed; it is not zero for a wrong argument count, an unknown command,
\* missing data and an unsupported algorithm name.
C8_ExitStatus ==
    Finished =>
        /\ exitCode = 0 <=> (\E i \in 1..Len(stdout) : IsSuccessJson(stdout[i]))
        /\ Len(args) # 1 => exitCode # 0
        /\ (Len(args) = 1 /\ args[1] # "hash") => exitCode # 0
        /\ (HashInvoked /\ DataEmptyOrAbsent) => exitCode # 0
        /\ (HashInvoked /\ AlgoUnsupportedName) => exitCode # 0

\* C8 happens: the TypeScript tool has printed a success line and exited with 0.
C8_Witness ==
    /\ Finished /\ tool = "ts" /\ HashInvoked /\ exitCode = 0
    /\ Len(stdout) = 1 /\ IsSuccessJson(stdout[1])

\* C9: the algo field of every success line printed is sha256 or md5.
C9_AlgoFieldSupported ==
    \A i \in 1..Len(stdout) :
        IsSuccessJson(stdout[i]) => AlgoField(stdout[i]) \in Supported

\* C9 happens: the Go tool has succeeded with ALGO set to the empty string.
C9_Witness ==
    /\ Finished /\ tool = "go" /\ HashInvoked /\ AlgoIs("")
    /\ Len(stdout) = 1 /\ IsSuccessJson(stdout[1]) /\ AlgoField(stdout[1]) = "sha256"

\* C10: whatever ran before, two invocations of the same tool with the same
\* arguments and the same environment end with the same lines and exit status.
C10_SameInputsSameOutput ==
    (SeenSameProgram /\ seen.env = env) =>
        /\ seen.stdout = stdout
        /\ seen.stderr = stderr
        /\ seen.exitCode = exitCode

\* C10 happens: the Go tool has twice reported an unsupported algorithm, the second
\* time with the map yielding sha256 before md5.
C10_Witness ==
    /\ SeenSameProgram /\ seen.env = env /\ tool = "go" /\ HashInvoked
    /\ DataNonEmpty /\ AlgoIs("whirlpool") /\ mapOrder = <<"sha256", "md5">>
    /\ Len(stdout) = 1 /\ IsUnsupportedAlgorithm(stdout[1])

\* An error has been detected and is about to be reported: Hash or the switch
\* returned an error (Go), or hash threw and the catch clause was entered.
FailureDetected == (pc = "go_report" /\ err # nil) \/ pc = "ts_catch"

\* C11: every failure is terminal.  The step after an error was detected prints the
\* error line and ends the invocation with a non-zero status, computing nothing;
\* and an invocation that ended in failure has printed no success line and holds
\* no result.
C11_FailureIsTerminal ==
    /\ [](Finished /\ exitCode # 0 =>
            /\ res = ""
            /\ \A i \in 1..Len(stdout) : ~IsSuccessJson(stdout[i]))
    /\ [][FailureDetected =>
            /\ pc' = "exited"
            /\ exitCode' # 0
            /\ res' = res
            /\ Len(stdout') = Len(stdout) + 1
            /\ ~IsSuccessJson(stdout'[Len(stdout')])]_vars

\* C11 happens: the TypeScript tool caught an error, printed it and exited.
C11_Witness ==
    /\ Finished /\ tool = "ts" /\ error # undefined /\ exitCode # 0
    /\ stdout = <<ErrorToString(error)>>

\* C12 (the claim as stated): the hash command with DATA empty or absent prints
\* exactly the line of the tutorials' tables.
C12_MissingDataLineOfTheTables ==
    (Finished /\ HashInvoked /\ DataEmptyOrAbsent) =>
        stdout = <<"Error: A data argument must be provided">>

\* C13 (the claim as stated): the hash command with DATA='foo' and ALGO='whirlpool'
\* prints exactly the line of the tutorials' tables.
C13_UnsupportedLineOfTheTables ==
    (Finished /\ HashInvoked /\ env = [DATA |-> "foo", ALGO |-> "whirlpool"]) =>
        stdout = <<"Error: Unsupported hash algorithm: whirlpool not in ['sha256', 'md5']">>

\* The elements of a sequence.
Range(seq) == {seq[i] : i \in 1..Len(seq)}

\* C14: the tables of supported algorithms are fixed: in every state each holds
\* exactly sha256 and md5, the Go map with the functions it was declared with, and
\* no step changes either.
C14_TablesFixed ==
    /\ [](/\ DOMAIN hashFunctions = Supported
          /\ hashFunctions = hashFuncSet
          /\ Range(SUPPORTED_ALGORITHMS) = Supported
          /\ Len(SUPPORTED_ALGORITHMS) = Cardinality(Supported))
    /\ [][hashFunctions' = hashFunctions
          /\ SUPPORTED_ALGORITHMS' = SUPPORTED_ALGORITHMS]_vars

\* C14 happens: the Go tool has refused an algorithm that is not in its table.
C14_Witness ==
    /\ Finished /\ tool = "go" /\ HashInvoked /\ DataNonEmpty /\ AlgoIs("whirlpool")
    /\ exitCode # 0 /\ DOMAIN hashFunctions = Supported

\* The value of the hash key of a success line: what follows the algo value and the
\* text `","hash":"`, up to the closing `"}`.
HashField(line) ==
    LET from == Len("{\"algo\":\"") + Len(AlgoField(line)) + Len("\",\"hash\":\"") + 1
    IN  SubSeq(line, from, Len(line) - Len("\"}"))

IsLowerHex(s) ==
    \A i \in 1..Len(s) : \E k \in 1..16 : SubSeq(s, i, i) = SubSeq("0123456789abcdef", k, k)

\* C15: in every success line the hash field is lowercase hexadecimal, of 64
\* characters when the algo field is sha256 and of 32 when it is md5.
C15_DigestLength ==
    \A i \in 1..Len(stdout) :
        IsSuccessJson(stdout[i]) =>
            /\ HasSuffix(stdout[i], "\"}")
            /\ IsLowerHex(HashField(stdout[i]))
            /\ AlgoField(stdout[i]) = "sha256" => Len(HashField(stdout[i])) = 64
            /\ AlgoField(stdout[i]) = "md5" => Len(HashField(stdout[i])) = 32

\* C15 happens: the TypeScript tool has printed the sha256 digest of "bar", which
\* has a byte below 16.
C15_Witness ==
    /\ Finished /\ tool = "ts" /\ HashInvoked /\ env = [DATA |-> "bar", ALGO |-> "sha256"]
    /\ Len(stdout) = 1 /\ Len(HashField(stdout[1])) = 64

\* The single argument is a command other than hash.
OtherCommand == Len(args) = 1 /\ args[1] # "hash"

\* A line only the hash operation produces.
IsHashOutput(line) ==
    IsSuccessJson(line) \/ IsMissingData(line) \/ IsUnsupportedAlgorithm(line)

\* C16: when the single argument is not hash, the invocation ends non-zero with one
\* line that names the command, and the hash operation is never called: no result
\* is held and no line of the hash operation is printed, whatever DATA and ALGO.
C16_UnknownCommand ==
    OtherCommand =>
        /\ res = ""
        /\ error = undefined
        /\ \A i \in 1..Len(stdout) : ~IsHashOutput(stdout[i])
        /\ err # nil => err[1] = "Unsupported command: " \o args[1]
        /\ Finished => /\ exitCode # 0
                       /\ Len(stdout) = 1
                       /\ IsUnknownCommand(stdout[1])
                       /\ HasSuffix(stdout[1], ": " \o args[1])

\* C16 happens: the Go tool was given verify with valid DATA and ALGO.
C16_Witness ==
    /\ Finished /\ tool = "go" /\ args = <<"verify">>
    /\ env = [DATA |-> "foo", ALGO |-> "md5"]
    /\ stdout = <<"Unsupported command: verify">>

IsUsage(line) == HasPrefix(line, "Usage: ")

\* C17: when the number of arguments is not one, no command is selected: the
\* process never reaches the switch, and it ends non-zero having printed one usage
\* line and no success line, also when the first argument is hash and DATA is valid.
C17_WrongArgumentCount ==
    (Len(args) # 1 /\ pc # "idle") =>
        /\ pc \in {"go_main", "ts_main", "exited"}
        /\ res = "" /\ err = nil /\ error = undefined
        /\ \A i \in 1..Len(stdout) : ~IsSuccessJson(stdout[i])
        /\ Finished => /\ exitCode # 0
                       /\ Len(stdout \o stderr) = 1
                       /\ IsUsage((stdout \o stderr)[1])

\* C17 happens: the Go tool was given hash and a second argument, with valid DATA.
C17_Witness ==
    /\ Finished /\ tool = "go" /\ args = <<"hash", "extra">> /\ env = [DATA |-> "foo"]
    /\ stdout = <<"Usage: gptscript-go-tool <command>">>

\* The kind of outcome a line stands for.
KindOfLine(line) ==
    IF IsSuccessJson(line) THEN "success"
    ELSE IF IsMissingData(line) THEN "missing data"
    ELSE IF IsUnsupportedAlgorithm(line) THEN "unsupported algorithm"
    ELSE IF IsUnknownCommand(line) THEN "unknown command"
    ELSE IF IsUsage(line) THEN "usage"
    ELSE "other"

\* The kinds of the lines of an invocation, on either channel.
Kinds(out, errs) == [i \in 1..Len(out \o errs) |-> KindOfLine((out \o errs)[i])]

\* C18 (the claim as stated): given the same arguments and environment, the Go tool
\* and the TypeScript tool end with the same kind of outcome, the same exit status,
\* and their line on the same channel.
C18_ToolsEquivalent ==
    (seen # None /\ Finished /\ seen.tool # tool /\ seen.args = args /\ seen.env = env) =>
        /\ Kinds(seen.stdout, seen.stderr) = Kinds(stdout, stderr)
        /\ seen.exitCode = exitCode
        /\ Len(seen.stdout) = Len(stdout)
        /\ Len(seen.stderr) = Len(stderr)

\* The field of a thread that a filter is compared with.
FieldOf(key) ==
    CASE key = "agentId" -> "agentID"
      [] key = "workflowId" -> "workflowID"
      [] key = "userId" -> "userID"

\* A filter is set: the loader data hold a non-empty value for it (the page tests
\* the value as a condition, so an empty value is no filter).
FilterSet(key) == key \in DOMAIN loaderData /\ loaderData[key] # ""

\* A field of a thread holds an id.
HasId(v) == v.type = "string" /\ Len(v.val) > 0

\* The threads of the cache that have an agent or a workflow and match every filter set.
Matching ==
    {t \in Range(getThreadsData.items) :
        /\ HasId(t.agentID) \/ HasId(t.workflowID)
        /\ \A key \in SchemaKeys :
              FilterSet(key) => t[FieldOf(key)] = JsString(loaderData[key])}

\* C19: the page displays exactly the threads that have an agentID or a workflowID
\* and match every filter set among agentId, workflowId and userId, each once; with
\* no filter set, every thread with an agentID or a workflowID; and nothing while
\* the threads are not loaded.
C19_DisplayedThreads ==
    IF getThreadsData = undefined
    THEN Displayed = <<>>
    ELSE /\ Range(Displayed) = Matching
         /\ Len(Displayed) = Cardinality(Matching)

\* C19 happens: all threads are loaded and, after the workflowId badge was removed,
\* the filters agentId = a1 and userId = u1 are set; of the three threads with an
\* agent or a workflow one is displayed.
C19_Witness ==
    /\ getThreadsData = JsArray(ThreadList(1..MaxThreads, 1))
    /\ clicked = "workflowId"
    /\ DOMAIN loaderData = {"agentId", "userId"}
    /\ loaderData["agentId"] = "a1" /\ loaderData["userId"] = "u1"
    /\ Displayed = <<ThreadOf(1)>>

\* The search parameters without their entry at position i.
WithoutEntry(params, i) == SubSeq(params, 1, i - 1) \o SubSeq(params, i + 1, Len(params))

\* C20: a step that changes the search parameters is the click of a badge shown: it
\* removes the entry of that badge's key and leaves every other entry as it was,
\* and every thread displayed before it is displayed after it.
C20_BadgeRemoval ==
    [][searchParams' # searchParams =>
          \E i \in 1..Len(searchParams) :
              /\ searchParams[i].key \in BadgeKeys
              /\ clicked' = searchParams[i].key
              /\ searchParams' = WithoutEntry(searchParams, i)
              /\ Range(Displayed) \subseteq Range(Displayed')]_vars

\* C20 happens: the badge of agentId was clicked; the tab parameter and the userId
\* filter are still there, and a thread is displayed.
C20_Witness ==
    /\ clicked = "agentId"
    /\ searchParams = <<[key |-> "userId", value |-> "u1"], [key |-> "tab", value |-> "x"]>>
    /\ Displayed = <<ThreadOf(1)>>

(***************************************************************************)
(* AIHelper.GenerateObject.                                                *)
(***************************************************************************)
\* The call has returned to its caller.
HasReturned == helperPc = "returned"

\* The evaluation failed; the retrieval of the text failed.
EvaluateFailed == HasReturned /\ run = NilRun

TextFailed == HasReturned /\ run # NilRun /\ callErr # nil

\* output is a *string.
OutputIsStringPointer == output.type = "*string"

\* The struct that holds the members of a text over the struct before: for the
\* texts of objects whose members fit the fields of Object.
Decoded(t, before) ==
    CASE t = "{}" -> before
      [] t = "{\"name\":\"b\"}" -> ObjectVar("b", before.count)
      [] t = "{\"name\":\"b\",\"count\":2}" -> ObjectVar("b", 2)
      [] t = "{\"other\":\"x\",\"name\":\"c\"}" -> ObjectVar("c", before.count)

FittingTexts ==
    {"{}", "{\"name\":\"b\"}", "{\"name\":\"b\",\"count\":2}", "{\"other\":\"x\",\"name\":\"c\"}"}

\* C21: when Evaluate or run.Text fails, GenerateObject returns that error and the
\* caller's output variable is as it was before the call.  When output is a *string
\* the request has JSONResponse false and the text is stored as it is, nil being
\* returned; otherwise the request has JSONResponse true and the text is decoded
\* into output: an object that fits is stored member by member and nil is returned,
\* and a text that is not JSON, or an output that is no pointer to a variable,
\* gives an error and no change.  The call ends otherwise only for a nil *string,
\* where the store panics.
C21_GenerateObject ==
    /\ helperPc # "idle" => toolDef.JSONResponse = ~OutputIsStringPointer
    /\ EvaluateFailed =>
          returned \in EvaluateErrors /\ returned = callErr /\ outputValue = given
    /\ TextFailed =>
          returned \in TextErrors /\ returned = callErr /\ outputValue = given
    /\ HasReturned /\ callErr = nil /\ OutputIsStringPointer =>
          outputValue = StringVar(text) /\ returned = nil
    /\ HasReturned /\ callErr = nil /\ ~OutputIsStringPointer =>
          IF output.ptr = "&o" /\ text \in FittingTexts
          THEN outputValue = Decoded(text, given) /\ returned = nil
          ELSE /\ returned # nil
               /\ output.ptr # "&o" \/ ~checkValid(text) => outputValue = given
    /\ helperPc = "panicked" => output = [type |-> "*string", ptr |-> "nil"]

\* C21 happens: the caller passed a pointer to a string holding "old", the run
\* was started, and the retrieval of its text failed with the text "hello" at
\* hand; the error is returned and the string still holds "old".
C21_Witness ==
    /\ TextFailed
    /\ output = [type |-> "*string", ptr |-> "&s"]
    /\ given = StringVar("old")
    /\ text = "hello"
    /\ outputValue = StringVar("old")
    /\ returned \in TextErrors

(***************************************************************************)
(* AgentPublishStatus.                                                     *)
(***************************************************************************)
\* The kinds of the elements rendered.
ShownKinds == {e.el : e \in shown}

\* A ref name that is not empty.
NonEmpty(refName) == refName # undefined /\ Len(refName.val) > 0

\* The list the component has holds an assistant with the agent's ref name.
ConflictFound ==
    LET data == getAssistantsData(agent, assistantsCache)
    IN  /\ data # undefined
        /\ \E a1 \in Range(data.items) : JsString(a1.id) = agent.refName

\* C22: for every agent exactly one of Publish and Unpublish is shown, Unpublish
\* if and only if refName is not empty; a request of the assistants began only for
\* an agent whose refName is not empty and whose refNameAssigned is false; the
\* copyable URL of the agent is shown only when refName is not empty,
\* refNameAssigned is true and no conflicting assistant was found; the
\* "Unavailable" notice and the copyable URL are never shown together.
C22_PublishStatus ==
    /\ agent # NoAgent =>
          /\ ("Publish" \in ShownKinds) # ("Unpublish" \in ShownKinds)
          /\ "Unpublish" \in ShownKinds <=> NonEmpty(agent.refName)
          /\ "CopyText" \in ShownKinds =>
                /\ NonEmpty(agent.refName)
                /\ agent.refNameAssigned
                /\ ~ConflictFound
                /\ [el |-> "CopyText", text |-> "https://otto8.example/" \o agent.refName.val]
                       \in shown
    /\ fetchedFor # NoAgent =>
          NonEmpty(fetchedFor.refName) /\ ~fetchedFor.refNameAssigned
    /\ fetching => fetchedFor # NoAgent
    /\ ~({"Unavailable", "CopyText"} \subseteq ShownKinds)

\* C22 happens: the assistants were fetched while the ref name r1 was not yet
\* assigned, and the list holds an assistant r1; the agent now has r1 assigned, and
\* the component shows the copyable URL and Unpublish.
C22_Witness ==
    /\ agent = [refName |-> JsString("r1"), refNameAssigned |-> TRUE]
    /\ fetchedFor = [refName |-> JsString("r1"), refNameAssigned |-> FALSE]
    /\ assistantsCache = JsArray(AssistantList(1..MaxAssistants, 1))
    /\ shown = {[el |-> "CopyText", text |-> "https://otto8.example/r1"],
                [el |-> "Unpublish"]}

====
